---- MODULE Spec2Model ----
(***************************************************************************)
(* Model of src/Credit.py: the credit / leasing calculator                 *)
(* (SmartCalculator), the vehicle valuation (Vehicle.get_residual_value)   *)
(* and the pre-approval scoring (ScoringSystem), the product catalogue     *)
(* (ProductConfigurator) and the session that ties them together           *)
(* (SmartFinanceApp.run).                                                  *)
(*                                                                         *)
(* Numbers.  The program computes with binary floating point.  Here money  *)
(* is an integer number of kopecks (1/100 rouble), an annual rate is an    *)
(* integer number of tenths of a percent (159 is 15.9%), a score is an     *)
(* integer number of hundredths of a point.  Every multiplication followed *)
(* by a division is carried out exactly and rounded to the nearest unit    *)
(* (MulDiv), so a value of the model differs from the program's value by   *)
(* the rounding of the fixed-point steps that produced it.                 *)
(***************************************************************************)
EXTENDS Integers, Sequences, FiniteSets, TLC

VARIABLES
    params,      \* the CalculationParameters under consideration
    client,      \* the ClientData under consideration, or NoClient
    valid,       \* what validate_parameters last returned for params, or NotCalled
    result,      \* what calculate last returned (or raised) for params, or NotCalled
    assessment,  \* what assess_client last returned (or raised), or NotCalled
    previous,    \* the assessment before this one (client, params, outcome), or NotCalled
    now,         \* the wall clock, in seconds, read by datetime.now()
    products,    \* the configurator's catalogue (ProductConfigurator.products)
    vehicle,     \* the Vehicle under consideration, or NoVehicle
    available,   \* what get_available_products last returned, or NotCalled
    pc,          \* where SmartFinanceApp.run stands
    calls        \* the calls of validate_parameters and calculate made so far
                 \* by the session, in order

appVars == <<products, vehicle, available, pc, calls>>

vars == <<params, client, valid, result, assessment, previous, now,
          products, vehicle, available, pc, calls>>

\* ----------------------------------------------------------------- numbers

Abs(x) == IF x < 0 THEN -x ELSE x

Max(a, b) == IF a >= b THEN a ELSE b

Min(a, b) == IF a <= b THEN a ELSE b

\* Long multiplication and division in machine integers.  acc = <<q, r>> holds
\* a * hb = q * c + r with 0 <= r < c, hb being the bits of b above bit i; the
\* step shifts bit i of b in.  No intermediate value exceeds 2 * c or the
\* quotient, so the product a * b need not fit in a machine integer.
BitStep(acc, i, a, b, c) ==
    LET r1 == 2 * acc[2]
        q1 == 2 * acc[1] + (IF r1 >= c THEN 1 ELSE 0)
        r2 == IF r1 >= c THEN r1 - c ELSE r1
        on == (b \div (2 ^ i)) % 2 = 1
        r3 == IF on THEN r2 + (a % c) ELSE r2
        q3 == IF on THEN q1 + (a \div c) ELSE q1
    IN  IF r3 >= c THEN <<q3 + 1, r3 - c>> ELSE <<q3, r3>>

\* BitStep for the bits hi, hi - 1, ..., lo of b, in that order (the range is
\* halved, and the upper half computed before the lower, only to keep the
\* evaluation shallow).
RECURSIVE BitLoop(_, _, _, _, _, _)
BitLoop(acc, hi, lo, a, b, c) ==
    IF hi < lo THEN acc
    ELSE IF hi = lo THEN BitStep(acc, hi, a, b, c)
    ELSE LET mid   == (hi + lo) \div 2
             upper == {BitLoop(acc, hi, mid + 1, a, b, c)}
         IN  CHOOSE r \in {BitLoop(x, mid, lo, a, b, c) : x \in upper} : TRUE

MaxInt == 2 ^ 30 + (2 ^ 30 - 1)     \* the largest machine integer

\* <<q, r>> with a * b = q * c + r and 0 <= r < c, for a >= 0, 0 <= b < 2^30,
\* 0 < c < 2^30: directly where the products fit in a machine integer, by
\* BitLoop otherwise.
DivMod(a, b, c) ==
    IF b = 0 \/ a <= MaxInt \div b
    THEN <<(a * b) \div c, (a * b) % c>>
    ELSE IF c <= MaxInt \div b
    THEN <<(a \div c) * b + ((a % c) * b) \div c, ((a % c) * b) % c>>
    ELSE BitLoop(<<0, 0>>, IF b < 2 ^ 16 THEN 15 ELSE 29, 0, a, b, c)

\* a * b / c rounded to the nearest integer (halves away from zero), c # 0.
RoundedQuotient(a, b, c) ==
    LET d    == DivMod(Abs(a), Abs(b), Abs(c))
        mag  == d[1] + (IF 2 * d[2] >= Abs(c) THEN 1 ELSE 0)
        sign == IF (a < 0) # ((b < 0) # (c < 0)) THEN -1 ELSE 1
    IN  sign * mag

\* RoundedQuotient with its arguments evaluated once, before the recursion
\* (binding over a one-element set makes the evaluator compute the value first).
MulDiv(a, b, c) ==
    CHOOSE q \in {RoundedQuotient(x[1], x[2], x[3]) : x \in {<<a, b, c>>}} : TRUE

\* TRUE iff x < a * num / den exactly, for a >= 0, num >= 0, den > 0.
LessThanShare(x, a, num, den) ==
    LET d == DivMod(a, num, den)
    IN  IF d[2] = 0 THEN x < d[1] ELSE x <= d[1]

\* TRUE iff x > a * num / den exactly, for a >= 0, num >= 0, den > 0.
ExceedsShare(x, a, num, den) == x > DivMod(a, num, den)[1]

\* ------------------------------------------------------------- data model

PowScale == 10 ^ 8           \* fixed-point unit of the growth factor (1 + r)^n

Kopecks == 10 ^ 2            \* kopecks in a rouble

NoVehicle == [kind |-> "none"]

NoClient == [kind |-> "none"]

NotCalled == [kind |-> "not_called"]

\* No CalculationParameters yet (None).
NoParameters == [kind |-> "none"]

Raised(e) == [kind |-> "raised", error |-> e]

\* Vehicle: price in kopecks, category as typed in.
Vehicle(price, category) == [kind |-> "vehicle", price |-> price, category |-> category]

\* CalculationParameters.
CalculationParameters(ft, amount, initial, months, veh, ins, life) ==
    [financing_type |-> ft, amount |-> amount, initial_payment |-> initial,
     months |-> months, vehicle |-> veh,
     insurance_included |-> ins, life_insurance |-> life]

financed_amount(p) == p.amount - p.initial_payment

\* Vehicle.get_residual_value: new, years <= 1: price * 0.80; new, later:
\* price * (0.80 - (years - 1) * 0.10) = price * (108 - months) / 120; any other
\* category: price * (1 - years * 0.15) = price * (80 - months) / 80.
get_residual_value(v, months) ==
    IF v.category = "new"
    THEN IF months <= 12
         THEN MulDiv(v.price, 80, 100)
         ELSE MulDiv(v.price, 108 - months, 120)
    ELSE MulDiv(v.price, 80 - months, 80)

\* -------------------------------------------------------- SmartCalculator

\* Annual rates in tenths of a percent.
base_rates ==
    [credit  |-> [new |-> 159, used |-> 189],
     leasing |-> [new |-> 149, used |-> 179]]

FinancingTypes == {"credit", "leasing"}

MsgAmount == "amount must be positive"

MsgInitial == "initial payment at least 15%"

MsgMonths == "term must be 12 to 84 months"

MsgType == "financing type must be credit or leasing"

MsgValid == "parameters valid"

\* What validate_parameters returns: (ok, reason).
Verdict(ok, reason) == [kind |-> "returned", ok |-> ok, reason |-> reason]

\* validate_parameters with the 15% rule written with <= : an initial payment
\* of exactly 15% is turned down.
validate_parameters_le(p) ==
    IF p.amount <= 0 THEN Verdict(FALSE, MsgAmount)
    ELSE IF ~ExceedsShare(p.initial_payment, p.amount, 15, 100)
    THEN Verdict(FALSE, MsgInitial)
    ELSE IF p.months < 12 \/ p.months > 84 THEN Verdict(FALSE, MsgMonths)
    ELSE IF p.financing_type \notin FinancingTypes THEN Verdict(FALSE, MsgType)
    ELSE Verdict(TRUE, MsgValid)

validate_parameters(p) ==
    IF p.amount <= 0 THEN Verdict(FALSE, MsgAmount)
    ELSE IF LessThanShare(p.initial_payment, p.amount, 15, 100)
    THEN Verdict(FALSE, MsgInitial)
    ELSE IF p.months < 12 \/ p.months > 84 THEN Verdict(FALSE, MsgMonths)
    ELSE IF p.financing_type \notin FinancingTypes THEN Verdict(FALSE, MsgType)
    ELSE Verdict(TRUE, MsgValid)

\* acc * (1 + annual_rate / 12) ^ months, one factor at a time (the count is
\* halved, and the first half computed before the second, only to keep the
\* evaluation shallow).
RECURSIVE GrowthLoop(_, _, _)
GrowthLoop(acc, annual_rate, months) ==
    IF months = 0 THEN acc
    ELSE IF months = 1 THEN MulDiv(acc, 12000 + annual_rate, 12000)
    ELSE LET first == {GrowthLoop(acc, annual_rate, months \div 2)}
         IN  CHOOSE r \in {GrowthLoop(x, annual_rate, months - months \div 2) :
                           x \in first} : TRUE

\* (1 + annual_rate / 12) ^ months in units of 1 / PowScale.
Growth(annual_rate, months) == GrowthLoop(PowScale, annual_rate, months)

\* amount * (r * (1 + r)^n) / ((1 + r)^n - 1); the caller has excluded n = 0,
\* where the program divides by zero.
calculate_annuity_payment(amount, annual_rate, months) ==
    LET g == Growth(annual_rate, months)
    IN  MulDiv(MulDiv(amount, annual_rate, 12000), g, g - PowScale)

\* ((total_cost / financed) - 1) * (12 / months) * 100, in hundredths of a percent.
calculate_effective_rate(p, monthly_payment) ==
    LET total_cost == monthly_payment * p.months
    IN  MulDiv(MulDiv(total_cost - financed_amount(p), 10000, financed_amount(p)),
               12, p.months)

\* One pass of the loop body of generate_schedule for period `month`:
\* acc = <<the unrounded running balance, the entries appended so far>>.
ScheduleStep(acc, month, monthly_payment, annual_rate) ==
    LET interest  == MulDiv(acc[1], annual_rate, 12000)
        principal == monthly_payment - interest
        rest      == acc[1] - principal
    IN  <<rest,
          Append(acc[2],
                 [month     |-> month,
                  date      |-> 30 * month,
                  payment   |-> monthly_payment,
                  principal |-> principal,
                  interest  |-> interest,
                  balance   |-> Max(0, rest)])>>

\* The loop of generate_schedule over the periods lo..hi, in order (the range
\* is halved, and the first half computed before the second, only to keep the
\* evaluation shallow).
RECURSIVE ScheduleLoop(_, _, _, _, _)
ScheduleLoop(acc, lo, hi, monthly_payment, annual_rate) ==
    IF lo > hi THEN acc
    ELSE IF lo = hi THEN ScheduleStep(acc, lo, monthly_payment, annual_rate)
    ELSE LET mid == (lo + hi) \div 2
             first == {ScheduleLoop(acc, lo, mid, monthly_payment, annual_rate)}
         IN  CHOOSE r \in {ScheduleLoop(a, mid + 1, hi, monthly_payment, annual_rate) :
                           a \in first} : TRUE

generate_schedule(p, monthly_payment, annual_rate) ==
    ScheduleLoop(<<financed_amount(p), <<>>>>, 1, p.months, monthly_payment, annual_rate)[2]

_generate_calculation_id(t) == <<"CALC", t>>

LifeInsuranceCost == 500 * Kopecks

vehicle_type_of(p) == IF p.vehicle # NoVehicle THEN p.vehicle.category ELSE "used"

\* base_rate_of with the long-term surcharge starting at 60 months, not after.
base_rate_of_from60(p) ==
    LET table == base_rates[p.financing_type][vehicle_type_of(p)]
    IN  IF p.months >= 60 THEN table + 20
        ELSE IF p.months < 24 THEN table - 10
        ELSE table

\* The base rate after the term adjustment.
base_rate_of(p) ==
    LET table == base_rates[p.financing_type][vehicle_type_of(p)]
    IN  IF p.months > 60 THEN table + 20
        ELSE IF p.months < 24 THEN table - 10
        ELSE table

residual_value_of(p) ==
    IF p.financing_type = "leasing" /\ p.vehicle # NoVehicle
    THEN get_residual_value(p.vehicle, p.months)
    ELSE 0

\* The amount handed to calculate_annuity_payment.
amortized_amount_of(p) ==
    IF p.financing_type = "leasing" /\ p.vehicle # NoVehicle
    THEN financed_amount(p) - residual_value_of(p)
    ELSE financed_amount(p)

monthly_payment_of(p) ==
    calculate_annuity_payment(amortized_amount_of(p), base_rate_of(p), p.months)
    + (IF p.insurance_included THEN MulDiv(p.amount, 5, 12000) ELSE 0)
    + (IF p.life_insurance THEN LifeInsuranceCost ELSE 0)

\* total_payment_of without the residual value of a leasing.
total_payment_of_no_residual(p, monthly_payment) == monthly_payment * p.months

total_payment_of(p, monthly_payment) ==
    monthly_payment * p.months
    + (IF p.financing_type = "leasing" THEN residual_value_of(p) ELSE 0)

\* SmartCalculator.calculate at clock t: the CalculationResult, or the
\* exception the call raises (an unknown financing type or vehicle category at
\* the rate lookup, a division by zero in the annuity coefficient when
\* months = 0 and in the effective rate when the financed amount is 0).
calculate(p, t) ==
    IF p.financing_type \notin DOMAIN base_rates THEN Raised("KeyError")
    ELSE IF vehicle_type_of(p) \notin DOMAIN base_rates[p.financing_type]
    THEN Raised("KeyError")
    ELSE IF p.months = 0 THEN Raised("ZeroDivisionError")
    ELSE IF financed_amount(p) = 0 THEN Raised("ZeroDivisionError")
    ELSE LET monthly_payment == monthly_payment_of(p)
             total_payment   == total_payment_of(p, monthly_payment)
             residual_value  == residual_value_of(p)
         IN  [kind                 |-> "result",
              monthly_payment      |-> monthly_payment,
              total_payment        |-> total_payment,
              overpayment          |-> total_payment - financed_amount(p),
              effective_rate       |-> calculate_effective_rate(p, monthly_payment),
              schedule             |-> generate_schedule(p, monthly_payment, base_rate_of(p)),
              approval_status      |-> "pending",
              approval_probability |-> 0,
              conditions           |->
                  [base_rate          |-> base_rate_of(p),
                   vehicle_type       |-> vehicle_type_of(p),
                   residual_value     |-> IF residual_value > 0
                                          THEN <<residual_value>> ELSE <<>>,
                   insurance_included |-> p.insurance_included,
                   life_insurance     |-> p.life_insurance],
              calculation_id       |-> _generate_calculation_id(t)]

\* ---------------------------------------------------------- ScoringSystem

\* ClientData: the fields assess_client reads (the birth year is the last
\* component of birth_date; income in kopecks).
ClientData(birth_year, income, employment, experience) ==
    [kind |-> "client", birth_year |-> birth_year, monthly_income |-> income,
     employment_type |-> employment, experience_months |-> experience]

CurrentYear == 2026          \* datetime.now().year

ScoreUnit == 10 ^ 2          \* a score point, in hundredths

rules == [min_income_ratio |-> 40,     \* percent of the income
          min_age          |-> 21,
          max_age          |-> 70,
          min_experience   |-> 3]

age_deduction(c) ==
    LET age == CurrentYear - c.birth_year
    IN  IF age < rules.min_age THEN 30 * ScoreUnit
        ELSE IF age > rules.max_age THEN 20 * ScoreUnit
        ELSE 0

\* income_deduction with the difference taken the wrong way round.
income_deduction_reversed(monthly_payment, income) ==
    IF ExceedsShare(monthly_payment, income, rules.min_income_ratio, 100)
    THEN rules.min_income_ratio * ScoreUnit - MulDiv(monthly_payment, 100 * ScoreUnit, income)
    ELSE 0

\* payment / income > 0.4 ? (payment / income - 0.4) * 100 : 0, income # 0.
income_deduction(monthly_payment, income) ==
    IF ExceedsShare(monthly_payment, income, rules.min_income_ratio, 100)
    THEN MulDiv(monthly_payment, 100 * ScoreUnit, income) - rules.min_income_ratio * ScoreUnit
    ELSE 0

experience_deduction(c) ==
    IF c.experience_months < rules.min_experience THEN 15 * ScoreUnit ELSE 0

employment_deduction(c) ==
    IF c.employment_type = "self_employed" THEN 10 * ScoreUnit
    ELSE IF c.employment_type = "business_owner" THEN 5 * ScoreUnit
    ELSE 0

\* clamp_score without the lower limit.
clamp_score_upper_only(score) == Min(100 * ScoreUnit, score)

clamp_score(score) == Max(0, Min(100 * ScoreUnit, score))

status_of(score) ==
    IF score >= 70 * ScoreUnit THEN "pre_approved"
    ELSE IF score >= 50 * ScoreUnit THEN "conditional_approval"
    ELSE "rejected"

\* ScoringSystem.assess_client at clock t: (score, status), or the exception
\* that calculate or the division by the income raises.
assess_client(c, p, t) ==
    LET temp_result == calculate(p, t)
    IN  IF temp_result.kind = "raised" THEN temp_result
        ELSE IF c.monthly_income = 0 THEN Raised("ZeroDivisionError")
        ELSE LET score == clamp_score(100 * ScoreUnit
                                      - age_deduction(c)
                                      - income_deduction(temp_result.monthly_payment,
                                                         c.monthly_income)
                                      - experience_deduction(c)
                                      - employment_deduction(c))
             IN  [kind |-> "assessed", score |-> score, status |-> status_of(score)]

\* ---------------------------------------------------- ProductConfigurator

\* A product definition of the catalogue.  Amounts are in kopecks, min_initial
\* in percent; a key the dict does not hold is the empty sequence.
Product(id, min_amount, max_amount, min_months, max_months, min_initial, residual_percent, available_for) ==
    [id |-> id, min_amount |-> min_amount, max_amount |-> max_amount,
     min_months |-> min_months, max_months |-> max_months,
     min_initial |-> min_initial, residual_percent |-> residual_percent,
     available_for |-> available_for, type |-> <<>>]

\* _load_products when no configuration file is supplied.
DefaultProducts ==
    [credit_products |->
        <<Product("credit_std", 100000 * Kopecks, 5000000 * Kopecks, 12, 84, 15,
                  <<>>, {"new", "used"}),
          Product("credit_premium", 500000 * Kopecks, 10000000 * Kopecks, 12, 60, 20,
                  <<>>, {"new"})>>,
     leasing_products |->
        <<Product("leasing_std", 300000 * Kopecks, 10000000 * Kopecks, 12, 60, 10,
                  <<20>>, {"new", "used"})>>]

\* _is_product_available with the lower limit of the amount exclusive.
_is_product_available_above_min(product, v, client_data) ==
    /\ v.category \in product.available_for
    /\ v.price > product.min_amount
    /\ ~(v.price > product.max_amount)

\* ProductConfigurator._is_product_available; client_data is not read, and
\* the minimum initial payment is computed and not used.
_is_product_available(product, v, client_data) ==
    /\ v.category \in product.available_for
    /\ ~(v.price < product.min_amount)
    /\ ~(v.price > product.max_amount)

\* product['type'] = t
Tagged(product, t) == [product EXCEPT !.type = <<t>>]

\* One of the two loops of get_available_products over a list of the
\* catalogue: the list after the loop, each available product tagged.
TagAvailable(list, t, v, client_data) ==
    [i \in 1..Len(list) |->
        IF _is_product_available(list[i], v, client_data)
        THEN Tagged(list[i], t) ELSE list[i]]

\* The products the loop appends, in the order of the list.
AppendedFrom(list, t, v, client_data) ==
    LET Keep(product) == _is_product_available(product, v, client_data)
    IN  SelectSeq(TagAvailable(list, t, v, client_data), Keep)

\* ProductConfigurator.get_available_products: the list returned and the
\* catalogue after the call.  The list holds the catalogue's own dicts.
get_available_products(catalogue, v, client_data) ==
    [returned |-> AppendedFrom(catalogue.credit_products, "credit", v, client_data)
                  \o AppendedFrom(catalogue.leasing_products, "leasing", v, client_data),
     products |-> [credit_products  |-> TagAvailable(catalogue.credit_products, "credit",
                                                     v, client_data),
                   leasing_products |-> TagAvailable(catalogue.leasing_products, "leasing",
                                                     v, client_data)]]

\* ------------------------------------------------------------------ inputs

MaxAmountUnits == 2          \* amounts and prices up to MaxAmountUnits * AmountUnit

MaxMonths == 85              \* the longest term entered

AmountUnit == 250000 * Kopecks

AmountInputs == {k * AmountUnit : k \in 0..MaxAmountUnits}

\* Initial payments entered against amount a: none, one kopeck short of 15%,
\* exactly 15%, 30%, the whole amount, more than the amount.
InitialInputs(a) ==
    IF a = 0 THEN {0, MulDiv(AmountUnit, 15, 100)}
    ELSE {0, MulDiv(a, 15, 100) - 1, MulDiv(a, 15, 100), MulDiv(a, 30, 100),
          a, a + MulDiv(a, 15, 100)}

MonthInputs == {0, 11, 12, 23, 24, 60, 61, 84, MaxMonths}

FinancingTypeInputs == {"credit", "leasing", "rent"}

VehicleInputs ==
    {NoVehicle} \cup {Vehicle(k * AmountUnit, c) : k \in 1..MaxAmountUnits, c \in {"new", "used"}}

ParameterInputs ==
    UNION {{CalculationParameters(ft, a, i, m, v, ins, life) :
                ft \in FinancingTypeInputs, i \in InitialInputs(a), m \in MonthInputs,
                v \in VehicleInputs, ins \in BOOLEAN, life \in BOOLEAN} :
           a \in AmountInputs}

\* Clients: ages 19, 20, 21, 70 and 71 in 2026; an income of 0 makes the
\* payment-to-income ratio undefined.
BirthYearInputs == {2007, 2006, 2005, 1956, 1955}

IncomeInputs == {0, 15000 * Kopecks, 40000 * Kopecks, 100000 * Kopecks}

EmploymentInputs == {"employed", "self_employed", "business_owner"}

ExperienceInputs == {2, 3}

ClientInputs ==
    {ClientData(y, inc, e, x) :
        y \in BirthYearInputs, inc \in IncomeInputs, e \in EmploymentInputs,
        x \in ExperienceInputs}

\* The parameter sets the scoring is run on: one short and one long credit, a
\* leasing of a new vehicle, and a term of 0 months, on which calculate raises.
ScoringParameterInputs ==
    {CalculationParameters("credit", AmountUnit, MulDiv(AmountUnit, 30, 100), 12,
                           NoVehicle, FALSE, FALSE),
     CalculationParameters("credit", AmountUnit, MulDiv(AmountUnit, 15, 100), 84,
                           Vehicle(AmountUnit, "used"), TRUE, TRUE),
     CalculationParameters("leasing", 2 * AmountUnit, MulDiv(AmountUnit, 30, 100), 24,
                           Vehicle(2 * AmountUnit, "new"), TRUE, FALSE),
     CalculationParameters("credit", AmountUnit, MulDiv(AmountUnit, 30, 100), 0,
                           NoVehicle, FALSE, FALSE)}

\* Vehicles offered to the catalogue: prices at, one kopeck below and one
\* kopeck above the limits of the default products; a category no product
\* lists.
CataloguePriceInputs ==
    {50000 * Kopecks,
     100000 * Kopecks - 1, 100000 * Kopecks,
     300000 * Kopecks - 1, 300000 * Kopecks,
     500000 * Kopecks - 1, 500000 * Kopecks,
     5000000 * Kopecks, 5000000 * Kopecks + 1,
     10000000 * Kopecks, 10000000 * Kopecks + 1}

CatalogueVehicleInputs ==
    {Vehicle(price, c) : price \in CataloguePriceInputs, c \in {"new", "used", "demo"}}

CatalogueClientInputs ==
    {c \in ClientInputs : c.employment_type = "employed" /\ c.experience_months = 3}

\* What the session is given.  input_client_data asks again until
\* ClientData.validate accepts, so the income is at least 15000.
MaxClock == 2                \* the clock runs from 0 to MaxClock seconds

SessionVehicleInputs == VehicleInputs \ {NoVehicle}

SessionClientInputs ==
    {c \in ClientInputs : /\ c.monthly_income >= 15000 * Kopecks
                          /\ c.birth_year \in {2007, 2005}
                          /\ c.employment_type = "employed"
                          /\ c.experience_months = 3}

\* input_calculation_parameters: the amount is the vehicle's price and the
\* vehicle is attached; the rest is typed in.
SessionParameterInputs(v) ==
    {CalculationParameters(ft, v.price, i, m, v, ins, FALSE) :
        ft \in FinancingTypeInputs,
        i \in {MulDiv(v.price, 15, 100) - 1, MulDiv(v.price, 30, 100)},
        m \in {0, 12, 60},
        ins \in BOOLEAN}

\* ------------------------------------------------------------- calculator

\* A CalculationParameters has been constructed; nothing has been called.
Init ==
    /\ params \in ParameterInputs
    /\ client = NoClient
    /\ valid = NotCalled
    /\ result = NotCalled
    /\ assessment = NotCalled
    /\ previous = NotCalled
    /\ now = 0
    /\ products = DefaultProducts
    /\ vehicle = NoVehicle
    /\ available = NotCalled
    /\ pc = "constructed"
    /\ calls = <<>>

\* calculator.validate_parameters(params)
ValidateParameters ==
    /\ valid = NotCalled
    /\ valid' = validate_parameters(params)
    /\ UNCHANGED <<params, client, result, assessment, previous, now>>
    /\ UNCHANGED appVars

\* calculator.calculate(params)
Calculate ==
    /\ result = NotCalled
    /\ result' = calculate(params, now)
    /\ UNCHANGED <<params, client, valid, assessment, previous, now>>
    /\ UNCHANGED appVars

Next == ValidateParameters \/ Calculate

Spec == Init /\ [][Next]_vars

\* ---------------------------------------------------------------- scoring

\* A ClientData and a CalculationParameters have been constructed.
InitScoring ==
    /\ params \in ScoringParameterInputs
    /\ client \in ClientInputs
    /\ valid = NotCalled
    /\ result = NotCalled
    /\ assessment = NotCalled
    /\ previous = NotCalled
    /\ now = 0
    /\ products = DefaultProducts
    /\ vehicle = NoVehicle
    /\ available = NotCalled
    /\ pc = "constructed"
    /\ calls = <<>>

\* scoring.assess_client(client, params)
AssessClient ==
    /\ client # NoClient
    /\ assessment = NotCalled
    /\ assessment' = assess_client(client, params, now)
    /\ UNCHANGED <<params, client, valid, result, previous, now>>
    /\ UNCHANGED appVars

\* The applicant is assessed again with another income and other parameters,
\* everything else held fixed: a new ClientData and a new
\* CalculationParameters are constructed, the last assessment is kept.
Reconsider ==
    /\ assessment # NotCalled
    /\ previous = NotCalled
    /\ \E inc \in IncomeInputs, p \in ScoringParameterInputs :
          /\ client' = ClientData(client.birth_year, inc, client.employment_type,
                                  client.experience_months)
          /\ params' = p
    /\ previous' = [kind |-> "assessed", client |-> client, params |-> params,
                    outcome |-> assessment]
    /\ assessment' = NotCalled
    /\ UNCHANGED <<valid, result, now>>
    /\ UNCHANGED appVars

NextScoring == AssessClient \/ Reconsider

SpecScoring == InitScoring /\ [][NextScoring]_vars

\* -------------------------------------------------------------- catalogue

\* A configurator has loaded the default catalogue; a vehicle and a client
\* have been entered.
InitCatalogue ==
    /\ products = DefaultProducts
    /\ vehicle \in CatalogueVehicleInputs
    /\ client \in CatalogueClientInputs
    /\ available = NotCalled
    /\ params = NoParameters
    /\ valid = NotCalled
    /\ result = NotCalled
    /\ assessment = NotCalled
    /\ previous = NotCalled
    /\ now = 0
    /\ pc = "constructed"
    /\ calls = <<>>

\* configurator.get_available_products(vehicle, client)
GetAvailableProducts ==
    /\ available = NotCalled
    /\ LET got == get_available_products(products, vehicle, client)
       IN  /\ available' = [kind |-> "returned", list |-> got.returned]
           /\ products' = got.products
    /\ UNCHANGED <<params, client, valid, result, assessment, previous, now,
                   vehicle, pc, calls>>

\* Another vehicle is entered for the same configurator.
EnterVehicle ==
    /\ available # NotCalled
    /\ vehicle' \in CatalogueVehicleInputs \ {vehicle}
    /\ available' = NotCalled
    /\ UNCHANGED <<params, client, valid, result, assessment, previous, now,
                   products, pc, calls>>

NextCatalogue == GetAvailableProducts \/ EnterVehicle

SpecCatalogue == InitCatalogue /\ [][NextCatalogue]_vars

\* ---------------------------------------------------------------- session

\* An entry of calls: calculator.validate_parameters(p) returned verdict.
ValidateCall(p, verdict) ==
    [op |-> "validate_parameters", by |-> "calculate_and_display", params |-> p,
     ok |-> verdict.ok, calculation_id |-> <<>>]

\* An entry of calls: calculate(p) was invoked by handler `by` and came to
\* outcome (a CalculationResult, or the exception raised).
CalculateCall(by, p, outcome) ==
    [op |-> "calculate", by |-> by, params |-> p, ok |-> outcome.kind = "result",
     calculation_id |-> IF outcome.kind = "result"
                        THEN <<outcome.calculation_id>> ELSE <<>>]

\* get_recommendations: the parameters synthesized for a product returned by
\* get_available_products (insurance_included and life_insurance by default).
RecommendationParameters(product, v) ==
    CalculationParameters(product.type[1], v.price,
                          MulDiv(v.price, product.min_initial, 100),
                          Min(60, product.max_months), v, TRUE, FALSE)

\* The calls of calculate that get_recommendations makes for the list, the
\* first k of them at second t and the others one second later.
RecommendationCalls(list, v, t, k) ==
    [i \in 1..Len(list) |->
        CalculateCall("get_recommendations", RecommendationParameters(list[i], v),
                      calculate(RecommendationParameters(list[i], v),
                                IF i <= k THEN t ELSE t + 1))]

\* SmartFinanceApp has been constructed; run() has not begun.
InitSession ==
    /\ products = DefaultProducts
    /\ vehicle = NoVehicle
    /\ client = NoClient
    /\ params = NoParameters
    /\ available = NotCalled
    /\ valid = NotCalled
    /\ result = NotCalled
    /\ assessment = NotCalled
    /\ previous = NotCalled
    /\ now \in 0..MaxClock
    /\ pc = "constructed"
    /\ calls = <<>>

\* The clock moves on between two steps of the session.
Tick ==
    /\ now < MaxClock
    /\ pc \notin {"constructed", "done", "rejected", "crashed"}
    /\ now' = now + 1
    /\ UNCHANGED <<params, client, valid, result, assessment, previous>>
    /\ UNCHANGED appVars

\* run: self.start_new_session()
StartNewSession ==
    /\ pc = "constructed"
    /\ pc' = "vehicle"
    /\ UNCHANGED <<params, client, valid, result, assessment, previous, now,
                   products, vehicle, available, calls>>

\* run: vehicle = self.input_vehicle_data()
InputVehicleData ==
    /\ pc = "vehicle"
    /\ vehicle' \in SessionVehicleInputs
    /\ pc' = "client"
    /\ UNCHANGED <<params, client, valid, result, assessment, previous, now,
                   products, available, calls>>

\* run: client = self.input_client_data()
InputClientData ==
    /\ pc = "client"
    /\ client' \in SessionClientInputs
    /\ pc' = "recommend"
    /\ UNCHANGED <<params, valid, result, assessment, previous, now,
                   products, vehicle, available, calls>>

\* run: self.get_recommendations(client, vehicle): get_available_products,
\* then one calculate per product returned; the list of recommendations is
\* printed and dropped.
GetRecommendations ==
    /\ pc = "recommend"
    /\ LET got == get_available_products(products, vehicle, client)
       IN  /\ available' = [kind |-> "returned", list |-> got.returned]
           /\ products' = got.products
           /\ \E k \in 0..Len(got.returned) :
                 /\ k < Len(got.returned) => now < MaxClock
                 /\ calls' = calls \o RecommendationCalls(got.returned, vehicle, now, k)
                 /\ now' = IF k < Len(got.returned) THEN now + 1 ELSE now
    /\ pc' = "parameters"
    /\ UNCHANGED <<params, client, valid, result, assessment, previous, vehicle>>

\* run: params = self.input_calculation_parameters(vehicle)
InputCalculationParameters ==
    /\ pc = "parameters"
    /\ params' \in SessionParameterInputs(vehicle)
    /\ pc' = "scoring"
    /\ UNCHANGED <<client, valid, result, assessment, previous, now,
                   products, vehicle, available, calls>>

\* run: score, approval_status = self.run_scoring(client, params), which is
\* scoring.assess_client(client, params) and, within it, calculate(params);
\* an exception ends the run, a rejection makes run return.
RunScoring ==
    /\ pc = "scoring"
    /\ assessment' = assess_client(client, params, now)
    /\ calls' = Append(calls, CalculateCall("assess_client", params, calculate(params, now)))
    /\ pc' = IF assessment'.kind = "raised" THEN "crashed"
             ELSE IF assessment'.status = "rejected" THEN "rejected"
             ELSE "display"
    /\ UNCHANGED <<params, client, valid, result, previous, now,
                   products, vehicle, available>>

\* run: self.calculate_and_display(params, approval_status):
\* validate_parameters, return if it refuses, else calculate and set the
\* result's approval status; then run prints its closing lines.
CalculateAndDisplay ==
    /\ pc = "display"
    /\ valid' = validate_parameters(params)
    /\ IF valid'.ok
       THEN LET outcome == calculate(params, now)
            IN  /\ calls' = calls \o <<ValidateCall(params, valid'),
                                       CalculateCall("calculate_and_display", params, outcome)>>
                /\ result' = IF outcome.kind = "result"
                             THEN [outcome EXCEPT !.approval_status = assessment.status]
                             ELSE outcome
                /\ pc' = IF outcome.kind = "result" THEN "done" ELSE "crashed"
       ELSE /\ calls' = Append(calls, ValidateCall(params, valid'))
            /\ result' = result
            /\ pc' = "done"
    /\ UNCHANGED <<params, client, assessment, previous, now,
                   products, vehicle, available>>

NextSession ==
    \/ Tick
    \/ StartNewSession
    \/ InputVehicleData
    \/ InputClientData
    \/ GetRecommendations
    \/ InputCalculationParameters
    \/ RunScoring
    \/ CalculateAndDisplay

SpecSession == InitSession /\ [][NextSession]_vars

\* ----------------------------------------------------------------- claims

Accepted == valid # NotCalled /\ valid.ok

Calculated == result # NotCalled /\ result.kind = "result"

\* The four rules of the validation, in the order of the text.
RuleAmount(p) == p.amount > 0

RuleInitial(p) == 20 * p.initial_payment >= 3 * p.amount

RuleMonths(p) == 12 <= p.months /\ p.months <= 84

RuleType(p) == p.financing_type = "credit" \/ p.financing_type = "leasing"

FirstFailure(p) ==
    IF ~RuleAmount(p) THEN MsgAmount
    ELSE IF ~RuleInitial(p) THEN MsgInitial
    ELSE IF ~RuleMonths(p) THEN MsgMonths
    ELSE MsgType

\* C1: validate_parameters returns (True, ...) iff amount > 0, the initial
\* payment is at least 15% of the amount, 12 <= months <= 84 and the financing
\* type is credit or leasing; otherwise it returns (False, reason) with the
\* reason of the first failing rule in that order; and the call leaves the
\* parameters as they were.
C1_ValidationVerdict ==
    /\ [](valid # NotCalled =>
            /\ valid.ok <=> (RuleAmount(params) /\ RuleInitial(params)
                             /\ RuleMonths(params) /\ RuleType(params))
            /\ ~valid.ok => valid.reason = FirstFailure(params))
    /\ [][valid' # valid => params' = params]_vars

\* Reached: a set with a positive amount, too small an initial payment, too
\* long a term and an unknown type is turned down for its initial payment.
C1_Witness ==
    /\ valid # NotCalled
    /\ valid = Verdict(FALSE, MsgInitial)
    /\ params.amount > 0
    /\ params.months > 84
    /\ params.financing_type = "rent"

\* C2: every parameter set that validate_parameters accepts has a financed
\* amount (amount - initial payment) strictly greater than 0.
C2_AcceptedFinancedPositive ==
    Accepted => financed_amount(params) > 0

\* The rate of the table of the text, in tenths of a percent.
TableRate(ft, category) ==
    CASE ft = "credit"  /\ category = "new"  -> 159
      [] ft = "credit"  /\ category = "used" -> 189
      [] ft = "leasing" /\ category = "new"  -> 149
      [] ft = "leasing" /\ category = "used" -> 179

TermAdjustment(months) ==
    IF months > 60 THEN 20 ELSE IF months < 24 THEN -10 ELSE 0

ExpectedRate(p) ==
    TableRate(p.financing_type,
              IF p.vehicle = NoVehicle THEN "used" ELSE p.vehicle.category)
    + TermAdjustment(p.months)

\* C3: for every valid parameter set, the annual rate that calculate discloses
\* as conditions.base_rate, and charges on the balance, is the table rate for
\* (financing type, vehicle category; used when no vehicle is attached), plus
\* 2 points if months > 60, minus 1 point if months < 24; the rider flags do
\* not enter it.
C3_RateSelection ==
    (Accepted /\ Calculated) =>
        /\ result.conditions.base_rate = ExpectedRate(params)
        /\ result.schedule[1].interest
             = MulDiv(financed_amount(params), ExpectedRate(params), 12000)

\* Reached: a valid leasing without a vehicle over more than 60 months with the
\* life-insurance rider, calculated at 17.9% + 2 points.
C3_Witness ==
    /\ Accepted
    /\ Calculated
    /\ params.financing_type = "leasing"
    /\ params.vehicle = NoVehicle
    /\ params.months > 60
    /\ params.life_insurance
    /\ result.conditions.base_rate = 199

\* What the fixed-point steps of a schedule can add up to (see the head of the
\* module): ten roubles.
RoundingEps == 10 * Kopecks

\* The sum of the principal components of the entries lo..hi.
RECURSIVE PrincipalSum(_, _, _)
PrincipalSum(schedule, lo, hi) ==
    IF lo > hi THEN 0
    ELSE IF lo = hi THEN schedule[lo].principal
    ELSE PrincipalSum(schedule, lo, (lo + hi) \div 2)
         + PrincipalSum(schedule, (lo + hi) \div 2 + 1, hi)

\* The residual value taken off the financed amount: for a leasing with a
\* vehicle attached, nothing otherwise.
ResidualOff(p) ==
    IF p.financing_type = "leasing" /\ p.vehicle # NoVehicle
    THEN get_residual_value(p.vehicle, p.months)
    ELSE 0

\* The amount the annuity amortizes.
AmortizedBase(p) == financed_amount(p) - ResidualOff(p)

\* The annuity payment on the amortized base, without riders.
BasePayment(p) ==
    calculate_annuity_payment(AmortizedBase(p), ExpectedRate(p), p.months)

\* C4: for every result of calculate on valid parameters, the principal
\* components of the schedule sum to the amount the annuity amortizes, up to
\* rounding, and the balance of the last entry is 0.
C4_PrincipalSumsToBase ==
    (Accepted /\ Calculated) =>
        /\ Abs(PrincipalSum(result.schedule, 1, Len(result.schedule))
               - AmortizedBase(params)) <= RoundingEps
        /\ result.schedule[Len(result.schedule)].balance <= RoundingEps

\* C5: in every schedule entry, principal = base annuity payment - interest,
\* the base annuity payment being the one without the insurance riders.
C5_PrincipalFromBasePayment ==
    Calculated =>
        \A k \in 1..Len(result.schedule) :
            result.schedule[k].principal
              = BasePayment(params) - result.schedule[k].interest

\* C6: for every result of calculate on valid parameters, the schedule has
\* exactly `months` entries numbered 1..months in order, and the balance never
\* rises from one entry to the next (starting from the financed amount), is
\* never negative, and is 0 at the final period.
C6_ScheduleShape ==
    (Accepted /\ Calculated) =>
        /\ Len(result.schedule) = params.months
        /\ \A k \in 1..Len(result.schedule) :
              /\ result.schedule[k].month = k
              /\ result.schedule[k].balance >= 0
              /\ result.schedule[k].balance
                   <= (IF k = 1 THEN financed_amount(params)
                       ELSE result.schedule[k - 1].balance)
        /\ result.schedule[Len(result.schedule)].balance <= RoundingEps

\* C7: for every result of calculate, monthly payment = annuity payment on the
\* amortized base + amount * 0.5% / 12 with the comprehensive insurance + 500
\* with the life insurance; total payment = monthly payment * months, plus the
\* residual value once for a leasing; overpayment = total payment - financed
\* amount.
C7_PaymentAndTotals ==
    Calculated =>
        /\ result.monthly_payment
             = BasePayment(params)
               + (IF params.insurance_included THEN MulDiv(params.amount, 5, 12000) ELSE 0)
               + (IF params.life_insurance THEN 500 * Kopecks ELSE 0)
        /\ result.total_payment
             = result.monthly_payment * params.months + ResidualOff(params)
        /\ result.overpayment = result.total_payment - financed_amount(params)

\* Reached: a leasing of a new vehicle with both riders, whose total payment
\* exceeds the instalments by the residual value.
C7_Witness ==
    /\ Calculated
    /\ params.financing_type = "leasing"
    /\ params.vehicle # NoVehicle
    /\ params.vehicle.category = "new"
    /\ params.insurance_included
    /\ params.life_insurance
    /\ ResidualOff(params) > 0
    /\ result.total_payment
         = result.monthly_payment * params.months + ResidualOff(params)

Assessed == assessment # NotCalled /\ assessment.kind = "assessed"

AssessedBefore == previous # NotCalled /\ previous.outcome.kind = "assessed"

AgeOf(c) == CurrentYear - c.birth_year

\* The payment-to-income ratio of an assessment, in hundredths of a percent.
RatioOf(c, p) == MulDiv(monthly_payment_of(p), 100 * ScoreUnit, c.monthly_income)

\* The deductions of the text other than the one for the ratio.
FixedDeductions(c) ==
    (IF AgeOf(c) < 21 THEN 30 * ScoreUnit ELSE IF AgeOf(c) > 70 THEN 20 * ScoreUnit ELSE 0)
    + (IF c.experience_months < 3 THEN 15 * ScoreUnit ELSE 0)
    + (IF c.employment_type = "self_employed" THEN 10 * ScoreUnit
       ELSE IF c.employment_type = "business_owner" THEN 5 * ScoreUnit
       ELSE 0)

\* C8: assess_client returns a score within [0, 100], which is 100 less the
\* deductions, limited to that range, and a status that the score determines:
\* pre_approved iff score >= 70, conditional_approval iff 50 <= score < 70,
\* rejected iff score < 50.
C8_ScoreRangeAndStatus ==
    Assessed =>
        /\ 0 <= assessment.score /\ assessment.score <= 100 * ScoreUnit
        /\ assessment.score
             = Max(0, 100 * ScoreUnit - FixedDeductions(client)
                      - Max(0, RatioOf(client, params) - 40 * ScoreUnit))
        /\ (assessment.status = "pre_approved") <=> (assessment.score >= 70 * ScoreUnit)
        /\ (assessment.status = "conditional_approval")
             <=> (50 * ScoreUnit <= assessment.score /\ assessment.score < 70 * ScoreUnit)
        /\ (assessment.status = "rejected") <=> (assessment.score < 50 * ScoreUnit)

\* Reached: deductions of more than 100 points, a score of 0, rejected.
C8_Witness ==
    /\ Assessed
    /\ FixedDeductions(client) + RatioOf(client, params) - 40 * ScoreUnit > 100 * ScoreUnit
    /\ assessment.score = 0
    /\ assessment.status = "rejected"

\* C9: a client younger than 21 is never pre-approved.
C9_Under21NotPreApproved ==
    (Assessed /\ AgeOf(client) < 21) => assessment.status # "pre_approved"

\* C10: with age, tenure and employment type held fixed, a larger
\* payment-to-income ratio never yields a higher score; a ratio of at most 40%
\* causes no deduction; the score stays within [0, 100].
C10_ScoreMonotoneInRatio ==
    Assessed =>
        /\ 0 <= assessment.score /\ assessment.score <= 100 * ScoreUnit
        /\ RatioOf(client, params) <= 40 * ScoreUnit
             => assessment.score = 100 * ScoreUnit - FixedDeductions(client)
        /\ (/\ AssessedBefore
            /\ previous.client.birth_year = client.birth_year
            /\ previous.client.experience_months = client.experience_months
            /\ previous.client.employment_type = client.employment_type)
             => /\ RatioOf(previous.client, previous.params) <= RatioOf(client, params)
                     => previous.outcome.score >= assessment.score
                /\ RatioOf(previous.client, previous.params) >= RatioOf(client, params)
                     => previous.outcome.score <= assessment.score

\* Reached: the same applicant assessed twice, the second time with a larger
\* ratio above 40% and a lower score.
C10_Witness ==
    /\ Assessed
    /\ AssessedBefore
    /\ previous.client.birth_year = client.birth_year
    /\ RatioOf(previous.client, previous.params) > 40 * ScoreUnit
    /\ RatioOf(previous.client, previous.params) < RatioOf(client, params)
    /\ previous.outcome.score > assessment.score

Returned == available # NotCalled

\* The products of the catalogue as loaded, credit products first.
CatalogueOrder == DefaultProducts.credit_products \o DefaultProducts.leasing_products

FinancingTypeOf(product) ==
    IF \E i \in 1..Len(DefaultProducts.credit_products) :
          DefaultProducts.credit_products[i].id = product.id
    THEN "credit" ELSE "leasing"

Eligible(product, v) ==
    /\ v.category \in product.available_for
    /\ product.min_amount <= v.price
    /\ v.price <= product.max_amount

\* C11: get_available_products returns exactly the catalogue products whose
\* eligible categories contain the vehicle's category and whose
\* [min_amount, max_amount] contains the vehicle's price, in catalogue order
\* with the credit products first, each tagged with its financing type; a used
\* vehicle priced 50,000 is not offered the premium credit.
C11_AvailableProducts ==
    Returned =>
        LET expected == SelectSeq(CatalogueOrder, LAMBDA product : Eligible(product, vehicle))
        IN  /\ Len(available.list) = Len(expected)
            /\ \A i \in 1..Len(expected) :
                  /\ available.list[i].id = expected[i].id
                  /\ available.list[i].type = <<FinancingTypeOf(expected[i])>>
                  /\ [available.list[i] EXCEPT !.type = <<>>] = expected[i]
            /\ (vehicle.category = "used" /\ vehicle.price = 50000 * Kopecks)
                  => \A i \in 1..Len(available.list) :
                        available.list[i].id # "credit_premium"

\* Reached: a new vehicle priced exactly at the lower limit of the premium
\* credit is offered all three products, in catalogue order.
C11_Witness ==
    /\ Returned
    /\ vehicle = Vehicle(500000 * Kopecks, "new")
    /\ Len(available.list) = 3
    /\ available.list[1].id = "credit_std"
    /\ available.list[2].id = "credit_premium"
    /\ available.list[3].id = "leasing_std"
    /\ available.list[3].type = <<"leasing">>

\* C12: calculate never raises: on degenerate or invalid parameters
\* (months = 0, a financed amount of 0, a financing type other than credit and
\* leasing) it returns a failure value instead.
C12_CalculateNeverRaises ==
    result # NotCalled => result.kind # "raised"

CalculateCalls == {i \in 1..Len(calls) : calls[i].op = "calculate"}

\* C13: any two calls of calculate yield results with different
\* calculation_id values, also within one clock second.
C13_UniqueCalculationId ==
    \A i, j \in CalculateCalls :
        (i # j /\ calls[i].ok /\ calls[j].ok)
            => calls[i].calculation_id # calls[j].calculation_id

\* C14: no entity is mutated after its creation: after any sequence of
\* get_available_products calls every product definition of the catalogue is
\* exactly as it was loaded.
C14_CatalogueAsLoaded ==
    /\ products.credit_products = DefaultProducts.credit_products
    /\ products.leasing_products = DefaultProducts.leasing_products

\* C15: in a session every invocation of calculate on a parameter set is
\* preceded by a validate_parameters call that accepted the same parameter
\* set.
C15_CalculateAfterAcceptance ==
    \A i \in CalculateCalls :
        \E j \in 1..(i - 1) :
            /\ calls[j].op = "validate_parameters"
            /\ calls[j].params = calls[i].params
            /\ calls[j].ok

\* C16: the parameter set get_recommendations synthesizes for a product that
\* get_available_products returned is accepted by validate_parameters.
C16_RecommendedParametersValid ==
    \A i \in CalculateCalls :
        calls[i].by = "get_recommendations"
            => validate_parameters(calls[i].params) = Verdict(TRUE, MsgValid)

\* C17: for every accepted parameter set whose vehicle is priced at the
\* amount, the amount calculate amortizes (the financed amount, less the
\* residual value for a leasing) is strictly positive, and so are the monthly
\* payment and the total payment of the result.
C17_AmortizedAmountPositive ==
    (/\ Accepted
     /\ params.vehicle # NoVehicle
     /\ params.vehicle.price = params.amount)
        => /\ amortized_amount_of(params) > 0
           /\ Calculated => /\ result.monthly_payment > 0
                            /\ result.total_payment > 0

====
